---- MODULE Spec2Model ----
(***************************************************************************)
(* Food Roulette / Booze Roulette: the four near-duplicate programs of the *)
(* repository as one state machine.                                        *)
(*                                                                         *)
(*   "FoodLafayette"   src/app.js            fixed location, one query     *)
(*   "FoodUS"          src/unnamed/part_000  city picker, one query        *)
(*   "BoozeUS"         src/booze.js          city picker, broad + narrow   *)
(*   "BoozeLafayette"  src/unnamed/part_001  fixed location, broad+narrow  *)
(*                                                                         *)
(* The variable `variant` is chosen in Init and never changes; every       *)
(* action follows the code of that variant.  Angles are integers in        *)
(* degrees: every division the model performs on them is exact on the grid *)
(* of random draws it uses.                                                *)
(***************************************************************************)
EXTENDS Integers, Sequences, FiniteSets, TLC

(***************************************************************************)
(* Bounds of the model.                                                    *)
(***************************************************************************)
\* spins started in one behaviour
MaxSpins == 2
\* initialize() runs awaiting their fetch at the same time
MaxRuns == 1
\* Math.random() returns k / RandDen for k in 0 .. RandDen - 1
RandDen == 4
\* random draws per candidate in the selection experiment (SpecSel)
DrawsPerIndex == 2
\* initialize() runs in flight at the same time in the city race (SpecRace)
RaceMaxRuns == 2

(***************************************************************************)
(* Program constants.                                                      *)
(***************************************************************************)
MAX_VISUAL_SLICES == 200
FullTurn == 360
QuarterTurn == 90
MinExtraSpins == 4
ExtraSpinsRange == 4
\* OVERPASS_URLS.length: app.js lists 3 mirrors, the other scripts 5
MirrorsOfApp == 3
MirrorsOfOthers == 5
\* deduped.slice(0, 15)
MaxCityResults == 15

Variants == {"FoodLafayette", "FoodUS", "BoozeUS", "BoozeLafayette"}

IsFood(v) == v \in {"FoodLafayette", "FoodUS"}
HasCityPicker(v) == v \in {"FoodUS", "BoozeUS"}
\* part_000 and booze.js preselect the winner and compress the wheel;
\* app.js and part_001 read the winner off the final rotation.
Preselects(v) == v \in {"FoodUS", "BoozeUS"}

NoCity == "null"
Cities == {"cityA"}
Lafayette == "LAFAYETTE_CENTER"

(***************************************************************************)
(* Raw Overpass elements.  A tag that is absent is "none".  The cuisine    *)
(* tag is held as the list of its ";"-separated segments, as written by    *)
(* the mapper (case and blanks kept).                                      *)
(***************************************************************************)
Tags(amenity, cuisine, alcohol, craft, name) ==
    [amenity |-> amenity, cuisine |-> cuisine, alcohol |-> alcohol,
     craft |-> craft, name |-> name]

Element(type, id, tags) == [type |-> type, id |-> id, tags |-> tags]

elItalian == Element("node", 1, Tags("restaurant", <<"Italian", " pizza">>, "none", "none", "Luigi"))
elSlice == Element("node", 2, Tags("fast_food", <<"pizza">>, "none", "none", "Unnamed"))
elCafe == Element("way", 3, Tags("cafe", <<"">>, "none", "none", "Unnamed"))
elBar == Element("node", 1, Tags("bar", <<"">>, "none", "none", "Unnamed"))
elBrewBar == Element("way", 2, Tags("bar", <<"">>, "none", "brewery", "Unnamed"))
elDry == Element("node", 3, Tags("restaurant", <<"">>, "none", "none", "Luigi"))
elTap == Element("node", 4, Tags("restaurant", <<"">>, "none", "none", "Taproom"))
elWine == Element("way", 1, Tags("cafe", <<"">>, "yes", "none", "Unnamed"))

\* json.elements of the responses a mirror may give
FoodResponses ==
    { <<>>,
      <<elItalian, elCafe, elSlice, elItalian, elBar>> }

BoozeResponses ==
    { <<>>,
      <<elBar, elBrewBar, elDry, elBar>>,
      <<elWine, elTap>>,
      <<elDry>> }

Responses(v) == IF IsFood(v) THEN FoodResponses ELSE BoozeResponses

\* the venues around the second city of the city pickers (SpecRace)
elBistro == Element("node", 7, Tags("restaurant", <<"burger">>, "none", "none", "Unnamed"))
elPub == Element("node", 8, Tags("pub", <<"">>, "none", "none", "Unnamed"))

OtherCity == "cityB"

\* json.elements a mirror may give for the query built for `city`
ResponsesAt(v, city) ==
    IF city = OtherCity
    THEN (IF IsFood(v) THEN {<<elBistro>>} ELSE {<<elPub>>})
    ELSE Responses(v)

(***************************************************************************)
(* Strings.                                                                *)
(***************************************************************************)
\* x.trim().toLowerCase() on the segments that occur
TrimLower(s) ==
    CASE s = "Italian" -> "italian"
      [] s = " pizza" -> "pizza"
      [] OTHER -> s

\* (a, b) => a.localeCompare(b) on the category strings that occur
CatOrder ==
    <<"bar", "biergarten", "brewery", "burger", "cafe", "italian",
      "nightclub", "pizza", "pub", "restaurant">>

SortCats(S) == SelectSeq(CatOrder, LAMBDA c : c \in S)

Range(s) == { s[i] : i \in 1 .. Len(s) }

(***************************************************************************)
(* Normalisation, classification, deduplication.                           *)
(***************************************************************************)
ExtractCuisines(tags) ==
    SelectSeq([i \in 1 .. Len(tags.cuisine) |-> TrimLower(tags.cuisine[i])],
              LAMBDA x : x # "")

\* /(\bbar\b|\bpub\b|tap|brew|...)/i and /tap ?room|brewery|brewing/ on the
\* names that occur
NameSuggestsAlcohol(name) == name = "Taproom"
NameSuggestsBrewery(name) == name = "Taproom"

\* Array.from(new Set(t)): first occurrences, in order
RECURSIVE Uniq(_)
Uniq(s) ==
    IF s = <<>> THEN <<>>
    ELSE LET r == Uniq(SelectSeq(s, LAMBDA x : x # Head(s)))
         IN  <<Head(s)>> \o r

CollectTypes(v, tags) ==
    LET amenity == tags.amenity
        direct == IF amenity \in {"bar", "pub", "biergarten", "nightclub"}
                  THEN <<amenity>> ELSE <<>>
        alcoholYes == tags.alcohol = "yes"
        byName == v = "BoozeUS" /\ NameSuggestsAlcohol(tags.name)
        serving == IF amenity \in {"restaurant", "cafe"} /\ (alcoholYes \/ byName)
                   THEN <<amenity>> ELSE <<>>
        brewery == IF tags.craft = "brewery"
                      \/ (v = "BoozeUS" /\ NameSuggestsBrewery(tags.name))
                   THEN <<"brewery">> ELSE <<>>
    IN  Uniq(direct \o serving \o brewery)

\* The venue's categories are held in the field `cuisine` in all variants
\* (the booze variants call the field `types`).
ToPlace(v, obj) ==
    [id |-> <<obj.type, obj.id>>,
     cuisine |-> IF IsFood(v) THEN ExtractCuisines(obj.tags)
                 ELSE CollectTypes(v, obj.tags),
     tags |-> obj.tags]

RECURSIVE DedupeLoop(_, _, _)
DedupeLoop(items, seen, out) ==
    IF items = <<>> THEN out
    ELSE LET item == Head(items)
         IN  IF item.id \notin seen
             THEN DedupeLoop(Tail(items), seen \cup {item.id}, Append(out, item))
             ELSE DedupeLoop(Tail(items), seen, out)

\* Faulty variant of dedupeById: every item is pushed.
dedupeNothing(items) == items

\* Faulty variant of dedupeById: of the items of one id the last is kept.
dedupeKeepingLast(items) ==
    LET Reverse(q) == [i \in 1 .. Len(q) |-> q[Len(q) + 1 - i]]
    IN  Reverse(DedupeLoop(Reverse(items), {}, <<>>))

dedupeById(items) == DedupeLoop(items, {}, <<>>)

\* What fetchPlaces / loadPlaces return for the accepted json.elements
LoadPlaces(v, elements) ==
    LET places == [i \in 1 .. Len(elements) |-> ToPlace(v, elements[i])]
        kept ==
          CASE IsFood(v) ->
                 SelectSeq(places, LAMBDA p :
                     p.tags.amenity \in {"restaurant", "fast_food", "cafe"})
            [] v = "BoozeLafayette" ->
                 SelectSeq(places, LAMBDA p : Len(p.cuisine) > 0)
            [] OTHER -> places
    IN  dedupeById(kept)

\* collectUniqueCuisines / buildTypesList
BreweryTagged(p) == p.tags.craft = "brewery"

CollectUnique(v, places) ==
    LET s == UNION { Range(places[i].cuisine) : i \in 1 .. Len(places) }
        fallback ==
          UNION { (IF places[i].tags.amenity \in {"bar", "pub", "biergarten", "nightclub"}
                   THEN {places[i].tags.amenity} ELSE {})
                  \cup (IF BreweryTagged(places[i]) THEN {"brewery"} ELSE {})
                  : i \in 1 .. Len(places) }
    IN  SortCats(IF v = "BoozeUS" /\ s = {} THEN fallback ELSE s)

(***************************************************************************)
(* applyFilters: the predicate of allPlaces.filter and the filtered list.  *)
(***************************************************************************)
\* Faulty variant of the filter predicate: a venue survives only if every one
\* of its categories is allowed.
KeepPlaceEveryCategory(v, p, unique, excluded, fastFood, cafe) ==
    LET allowed == { c \in Range(unique) : c \notin excluded }
    IN  CASE IsFood(v) ->
               /\ ~(p.tags.amenity = "fast_food" /\ ~fastFood)
               /\ ~(p.tags.amenity = "cafe" /\ ~cafe)
               /\ \A c \in Range(p.cuisine) : c \in allowed
          [] OTHER ->
               /\ Len(p.cuisine) > 0
               /\ \A t \in Range(p.cuisine) : t \in allowed

\* Faulty variant of the filter predicate: the food variants lose the
\* "no cuisine listed, include by default" branch.
KeepPlaceNoDefault(v, p, unique, excluded, fastFood, cafe) ==
    LET allowed == { c \in Range(unique) : c \notin excluded }
    IN  CASE IsFood(v) ->
               /\ ~(p.tags.amenity = "fast_food" /\ ~fastFood)
               /\ ~(p.tags.amenity = "cafe" /\ ~cafe)
               /\ \E c \in Range(p.cuisine) : c \in allowed
          [] OTHER -> \E t \in Range(p.cuisine) : t \in allowed

\* Faulty variant of the venue test: the subtype toggles are not read.
KeepPlaceIgnoringToggles(v, p, unique, excluded, fastFood, cafe) ==
    LET allowed == { c \in Range(unique) : c \notin excluded }
    IN  CASE IsFood(v) ->
               IF Len(p.cuisine) > 0
               THEN \E c \in Range(p.cuisine) : c \in allowed
               ELSE TRUE
          [] v = "BoozeUS" /\ Len(unique) = 0 ->
               \/ p.tags.amenity \in {"bar", "pub", "biergarten", "nightclub"}
               \/ BreweryTagged(p)
          [] OTHER -> \E t \in Range(p.cuisine) : t \in allowed

KeepPlace(v, p, unique, excluded, fastFood, cafe) ==
    LET allowed == { c \in Range(unique) : c \notin excluded }
    IN  CASE IsFood(v) ->
               /\ ~(p.tags.amenity = "fast_food" /\ ~fastFood)
               /\ ~(p.tags.amenity = "cafe" /\ ~cafe)
               /\ IF Len(p.cuisine) > 0
                  THEN \E c \in Range(p.cuisine) : c \in allowed
                  ELSE TRUE
          [] v = "BoozeUS" /\ Len(unique) = 0 ->
               \/ p.tags.amenity \in {"bar", "pub", "biergarten", "nightclub"}
               \/ BreweryTagged(p)
          [] OTHER -> \E t \in Range(p.cuisine) : t \in allowed

\* Faulty variant of the filtered list: the kept venues in reverse order.
FilteredReversed(v, places, unique, excluded, fastFood, cafe) ==
    LET kept == SelectSeq(places, LAMBDA p : KeepPlace(v, p, unique, excluded, fastFood, cafe))
    IN  [i \in 1 .. Len(kept) |-> kept[Len(kept) + 1 - i]]

Filtered(v, places, unique, excluded, fastFood, cafe) ==
    SelectSeq(places, LAMBDA p : KeepPlace(v, p, unique, excluded, fastFood, cafe))

(***************************************************************************)
(* Spin arithmetic.  `den` is the grid of Math.random() (the draw k stands *)
(* for k / den) and `turn` the number of angle units in 360 degrees.       *)
(***************************************************************************)
Min(a, b) == IF a <= b THEN a ELSE b

\* JavaScript's %: the sign of the result is the sign of the dividend
JsRem(a, m) == IF a >= 0 THEN a % m ELSE -((-a) % m)

\* (((a % 360) + 360) % 360)
Normalize(a, turn) == JsRem(JsRem(a, turn) + turn, turn)

\* 90 degrees in units of turn / 360
Quarter(turn) == (QuarterTurn * turn) \div FullTurn

\* Faulty variant of the extra spins: 4 + Math.floor(Math.random() * 5)
ExtraSpinsUpToEight(k, den) == MinExtraSpins + ((k * (ExtraSpinsRange + 1)) \div den)

\* 4 + Math.floor(Math.random() * 4)
ExtraSpins(k, den) == MinExtraSpins + ((k * ExtraSpinsRange) \div den)

\* Faulty variant of the winner draw: Math.floor(Math.random() ** 2 * n)
ChosenIndexSquared(k, den, n) == (k * k * n) \div (den * den)

\* Math.floor(Math.random() * n)
ChosenIndex(k, den, n) == (k * n) \div den

VisualCount(v, n) == IF Preselects(v) THEN Min(n, MAX_VISUAL_SLICES) ELSE n

\* Faulty variant of the slice mapping: chosenIndex % visualCount
VisualIndexModulo(chosenIndex, visualCount, n) == chosenIndex % visualCount

\* Math.floor((chosenIndex * visualCount) / n)
VisualIndex(chosenIndex, visualCount, n) == (chosenIndex * visualCount) \div n

\* visualIndex * sliceAngle + Math.random() * sliceAngle, sliceAngle = 360 / visualCount
TargetNormalized(visualIndex, visualCount, k, den, turn) ==
    ((visualIndex * den + k) * turn) \div (visualCount * den)

\* Faulty variant of the offset: the difference is taken the other way round.
OffsetReversed(acc, targetNormalized, turn) ==
    LET currentNormalized == Normalize(-acc + Quarter(turn), turn)
    IN  Normalize(targetNormalized - currentNormalized, turn)

\* offset that brings targetNormalized under the pointer
Offset(acc, targetNormalized, turn) ==
    LET currentNormalized == Normalize(-acc + Quarter(turn), turn)
    IN  Normalize(currentNormalized - targetNormalized, turn)

\* Math.random() * 360
RandomPart(k, den, turn) == (k * turn) \div den

\* Math.floor(normalized / sliceAngle) % n, sliceAngle = 360 / n
IndexFromRotation(finalRotation, n, turn) ==
    LET normalized == Normalize(-finalRotation + Quarter(turn), turn)
    IN  ((normalized * n) \div turn) % n

\* Faulty variant of finalRotation: the spin starts from rotation 0 instead
\* of from accumulatedRotation.
FinalRotationFromZero(v, acc, n, k1, k2, k3, den, turn) ==
    ExtraSpins(k3, den) * turn + RandomPart(k2, den, turn)

\* finalRotation of a spin started at rotation acc with the draws k1, k2, k3
\* (k1: winner, preselecting variants only; k2: offset; k3: extra spins)
FinalRotation(v, acc, n, k1, k2, k3, den, turn) ==
    LET visualCount == VisualCount(v, n)
        visualIndex == VisualIndex(ChosenIndex(k1, den, n), visualCount, n)
        target == TargetNormalized(visualIndex, visualCount, k2, den, turn)
    IN  IF Preselects(v)
        THEN acc + ExtraSpins(k3, den) * turn + Offset(acc, target, turn)
        ELSE acc + ExtraSpins(k3, den) * turn + RandomPart(k2, den, turn)

\* 0-based index of the venue the spin designates in the list of size n it
\* was started on
SpinIndex(v, n, k1, finalRotation, den, turn) ==
    IF Preselects(v) THEN ChosenIndex(k1, den, n)
    ELSE IndexFromRotation(finalRotation, n, turn)

(***************************************************************************)
(* State.                                                                  *)
(***************************************************************************)
VARIABLES
    variant,              \* which of the four programs runs
    selectedCity,         \* NoCity or the chosen Location (city pickers only)
    allPlaces,            \* deduplicated venues of the fetch that landed last
    uniqueCuisines,       \* sorted category list (uniqueTypes in the booze variants)
    excludedCuisines,     \* exclusion set (excludedTypes in the booze variants)
    includeFastFood,      \* includeFastFood.checked (food variants)
    includeCafe,          \* includeCafe.checked (food variants)
    currentFiltered,      \* the filtered list
    isSpinning,
    accumulatedRotation,
    spinBtnDisabled,      \* spinBtn.disabled
    resultHidden,         \* resultCard has class "hidden"
    resultCard,           \* the venue rendered in the result card, or NoPlace
    statusMessage,
    timers,               \* pending spin-completion timers, oldest first
    runs,                 \* initialize() runs awaiting their fetch, oldest first
    threw,                \* the last handler ended with an uncaught exception
    spinCount,            \* spins started so far
    lastOp,               \* "spinWheel" when the handler that ran last is spinWheel
    sel,                  \* the tally of the selection experiment (SpecSel)
    net,                  \* the routine under study (SpecNet, SpecGeo, SpecRadius, SpecWheel)
    storage               \* localStorage: the fr_selected_city entry, and whether setItem works

vars ==
    <<variant, selectedCity, allPlaces, uniqueCuisines, excludedCuisines,
      includeFastFood, includeCafe, currentFiltered, isSpinning,
      accumulatedRotation, spinBtnDisabled, resultHidden, resultCard,
      statusMessage, timers, runs, threw, spinCount, lastOp, sel, net, storage>>

NoPlace == [id |-> <<"none", 0>>, cuisine |-> <<>>,
            tags |-> Tags("none", <<>>, "none", "none", "none")]

\* what currentFiltered[index] is: undefined when index is out of range
Undefined == [id |-> <<"undefined", 0>>, cuisine |-> <<>>,
              tags |-> Tags("none", <<>>, "none", "none", "none")]
At(list, index) == IF index + 1 \in 1 .. Len(list) THEN list[index + 1] ELSE Undefined

SelIdle == [phase |-> "idle"]
NetIdle == [phase |-> "idle"]

(***************************************************************************)
(* localStorage.  An entry is what getItem("fr_selected_city") returns:    *)
(* null, a text JSON.parse rejects, or the JSON text of an object, with or *)
(* without a bbox member.                                                  *)
(***************************************************************************)
Entry(kind, name, bbox) == [kind |-> kind, name |-> name, bbox |-> bbox]

Absent == Entry("null", NoCity, FALSE)
Unparsable == Entry("garbage", NoCity, FALSE)
WithoutBbox(city) == Entry("json", city, FALSE)

\* JSON.stringify(city) of the object the click handler builds, which has a
\* bbox member
Serialize(city) == Entry("json", city, TRUE)

\* Faulty variant of the reader: the bbox test is missing.
loadWithoutBboxTest(entry) ==
    IF entry.kind = "json" THEN entry.name ELSE NoCity

\* loadSelectedCityFromStorage: selectedCity after it, selectedCity being
\* null before; a JSON.parse that throws is caught
loadSelectedCityFromStorage(entry) ==
    IF entry.kind = "json" /\ entry.bbox THEN entry.name ELSE NoCity

\* try { localStorage.setItem(...) } catch (e) { }: a setItem that throws
\* leaves the entry as it was
setItem(st, entry) == IF st.writable THEN [st EXCEPT !.entry = entry] ELSE st

\* the entries the page may find at startup, with a working localStorage
StartupStorage(v) ==
    IF HasCityPicker(v)
    THEN [entry : {Absent} \cup {Serialize(c) : c \in Cities}, writable : {TRUE}]
    ELSE {[entry |-> Absent, writable |-> TRUE]}

\* the city a run fetches for; the Lafayette variants have a fixed centre
RunCity(v, city) == IF HasCityPicker(v) THEN city ELSE Lafayette

\* A run of initialize() awaiting its fetch.  `city` is selectedCity when the
\* run starts; `queried` holds the cities the accepted response may be for:
\* part_000 builds the query once, when fetchPlaces starts; booze.js builds
\* it anew for every attempt, from selectedCity as it is then.
NewRun(v, city) == [city |-> RunCity(v, city), queried |-> {RunCity(v, city)}]

\* the runs in flight after selectedCity has become `city`
Requery(v, rs, city) ==
    [k \in 1 .. Len(rs) |->
       IF v = "BoozeUS" THEN [rs[k] EXCEPT !.queried = @ \cup {city}] ELSE rs[k]]

\* Faulty variant of the start of a run: the runs in flight are dropped.
RunsAfterStartCancelling(v, rs, city) == <<NewRun(v, city)>>

\* the runs in flight after initialize() has started a run for `city`:
\* nothing cancels the earlier ones
RunsAfterStart(v, rs, city) == Append(Requery(v, rs, city), NewRun(v, city))

(***************************************************************************)
(* The state after the script has run: loadSelectedCityFromStorage() and   *)
(* initialize() up to its first await.                                     *)
(***************************************************************************)
InitPageFrom(stores) ==
    /\ variant \in Variants
    /\ storage \in stores
    /\ selectedCity = (IF HasCityPicker(variant)
                       THEN loadSelectedCityFromStorage(storage.entry) ELSE NoCity)
    /\ allPlaces = <<>>
    /\ uniqueCuisines = <<>>
    /\ excludedCuisines = {}
    /\ includeFastFood = TRUE
    /\ includeCafe = TRUE
    /\ currentFiltered = <<>>
    /\ isSpinning = FALSE
    /\ accumulatedRotation = 0
    /\ spinBtnDisabled = TRUE
    /\ resultHidden = TRUE
    /\ resultCard = NoPlace
    /\ statusMessage = (IF HasCityPicker(variant) /\ selectedCity = NoCity
                        THEN "Select a city to start." ELSE "Fetching")
    /\ timers = <<>>
    /\ runs = (IF HasCityPicker(variant) /\ selectedCity = NoCity
               THEN <<>> ELSE <<NewRun(variant, selectedCity)>>)
    /\ threw = FALSE
    /\ spinCount = 0
    /\ lastOp = "other"

InitPage == InitPageFrom(StartupStorage(variant))

Init == InitPage /\ sel = SelIdle /\ net = NetIdle

(***************************************************************************)
(* spinWheel and its timer.                                                *)
(***************************************************************************)
\* Faulty variant of the early returns: the re-entrancy guard is missing.
SpinBlockedOnlyWhenEmpty == Len(currentFiltered) = 0

\* the two early returns of spinWheel
SpinBlocked == isSpinning \/ Len(currentFiltered) = 0

\* the closure handed to setTimeout.  `chosen` is the venue the spin
\* designates in the list as it is when spinWheel runs; the callbacks of
\* app.js and part_001 do not hold it and read finalRotation and n instead.
\* `started` records currentFiltered as spinWheel found it; no callback
\* reads it.
SpinTimer(v, list, k1, finalRotation) ==
    [chosen |-> At(list, SpinIndex(v, Len(list), k1, finalRotation, RandDen, FullTurn)),
     finalRotation |-> finalRotation,
     n |-> Len(list),
     started |-> list]

\* The values of the three Math.random() calls of one spin.  The state
\* machine takes all three at the least or all three at the greatest value
\* of the grid: the first or the last venue of the list, 4 or 7 extra spins.
\* SpecSel enumerates the whole grid.
SpinDraws == { <<k, k, k>> : k \in {0, RandDen - 1} }

\* click on spinBtn (a disabled button dispatches no click)
SpinWheel ==
    /\ ~spinBtnDisabled
    /\ spinCount < MaxSpins
    /\ lastOp' = "spinWheel"
    /\ threw' = FALSE
    /\ IF SpinBlocked
       THEN UNCHANGED <<isSpinning, spinBtnDisabled, resultHidden,
                        accumulatedRotation, timers, spinCount>>
       ELSE \E d \in SpinDraws :
              LET k1 == d[1]
                  finalRotation ==
                    FinalRotation(variant, accumulatedRotation, Len(currentFiltered),
                                  k1, d[2], d[3], RandDen, FullTurn)
              IN  /\ isSpinning' = TRUE
                  /\ spinBtnDisabled' = TRUE
                  /\ resultHidden' = TRUE
                  /\ accumulatedRotation' = finalRotation
                  /\ timers' = Append(timers,
                                      SpinTimer(variant, currentFiltered, k1, finalRotation))
                  /\ spinCount' = spinCount + 1
    /\ UNCHANGED <<variant, selectedCity, allPlaces, uniqueCuisines, excludedCuisines,
                   includeFastFood, includeCafe, currentFiltered, resultCard,
                   statusMessage, runs, sel, net, storage>>

\* the venue the timer callback hands to showResult
Revealed(v, timer, list) ==
    IF Preselects(v) THEN timer.chosen
    ELSE At(list, IndexFromRotation(timer.finalRotation, timer.n, FullTurn))

\* the setTimeout callback; showResult(undefined) throws at place.street
SpinTimeout ==
    /\ timers # <<>>
    /\ LET place == Revealed(variant, Head(timers), currentFiltered)
       IN  /\ isSpinning' = FALSE
           /\ spinBtnDisabled' = FALSE
           /\ IF place = Undefined
              THEN /\ threw' = TRUE
                   /\ UNCHANGED <<resultCard, resultHidden>>
              ELSE /\ threw' = FALSE
                   /\ resultCard' = place
                   /\ resultHidden' = FALSE
    /\ timers' = Tail(timers)
    /\ lastOp' = "other"
    /\ UNCHANGED <<variant, selectedCity, allPlaces, uniqueCuisines, excludedCuisines,
                   includeFastFood, includeCafe, currentFiltered, accumulatedRotation,
                   statusMessage, runs, spinCount, sel, net, storage>>

(***************************************************************************)
(* Filter handlers: each ends with applyFilters().                         *)
(***************************************************************************)
StatusAfterFilters(v, list) ==
    IF IsFood(v) /\ Len(list) = 0
    THEN "No places after filters." ELSE "places ready"

\* Faulty variant of applyFilters: the kept venues are pushed onto the
\* filtered list instead of replacing it.
ApplyFiltersAppending(excluded, fastFood, cafe) ==
    LET list == Filtered(variant, allPlaces, uniqueCuisines, excluded, fastFood, cafe)
    IN  /\ currentFiltered' = currentFiltered \o list
        /\ statusMessage' = StatusAfterFilters(variant, list)
        /\ spinBtnDisabled' = (IF IsFood(variant) THEN spinBtnDisabled
                               ELSE Len(list) = 0)

\* applyFilters() with the exclusion set and the toggles as given
ApplyFilters(excluded, fastFood, cafe) ==
    LET list == Filtered(variant, allPlaces, uniqueCuisines, excluded, fastFood, cafe)
    IN  /\ currentFiltered' = list
        /\ statusMessage' = StatusAfterFilters(variant, list)
        /\ spinBtnDisabled' = (IF IsFood(variant) THEN spinBtnDisabled
                               ELSE Len(list) = 0)

\* Faulty variant of the filter handlers: they end by calling initialize().
FilterFrameRefetching ==
    /\ threw' = FALSE
    /\ runs' = (IF Len(runs) < MaxRuns
                THEN RunsAfterStart(variant, runs, selectedCity) ELSE runs)
    /\ UNCHANGED <<variant, selectedCity, allPlaces, uniqueCuisines, isSpinning,
                   accumulatedRotation, resultHidden, resultCard, timers,
                   spinCount, sel, net, storage>>

\* what the filter handlers leave alone
FilterFrame ==
    /\ threw' = FALSE
    /\ UNCHANGED <<variant, selectedCity, allPlaces, uniqueCuisines, isSpinning,
                   accumulatedRotation, resultHidden, resultCard, timers, runs,
                   spinCount, sel, net, storage>>

\* change event of the checkbox of category c
ToggleCuisine ==
    \E c \in Range(uniqueCuisines) :
      /\ excludedCuisines' = (IF c \in excludedCuisines
                              THEN excludedCuisines \ {c}
                              ELSE excludedCuisines \cup {c})
      /\ ApplyFilters(excludedCuisines', includeFastFood, includeCafe)
      /\ lastOp' = "other"
      /\ UNCHANGED <<includeFastFood, includeCafe>>
      /\ FilterFrame

SelectNone ==
    /\ excludedCuisines' = {}
    /\ ApplyFilters(excludedCuisines', includeFastFood, includeCafe)
    /\ lastOp' = "other"
    /\ UNCHANGED <<includeFastFood, includeCafe>>
    /\ FilterFrame

SelectAll ==
    /\ excludedCuisines' = Range(uniqueCuisines)
    /\ ApplyFilters(excludedCuisines', includeFastFood, includeCafe)
    /\ lastOp' = "other"
    /\ UNCHANGED <<includeFastFood, includeCafe>>
    /\ FilterFrame

ToggleFastFood ==
    /\ IsFood(variant)
    /\ includeFastFood' = ~includeFastFood
    /\ ApplyFilters(excludedCuisines, includeFastFood', includeCafe)
    /\ lastOp' = "other"
    /\ UNCHANGED <<excludedCuisines, includeCafe>>
    /\ FilterFrame

ToggleCafe ==
    /\ IsFood(variant)
    /\ includeCafe' = ~includeCafe
    /\ ApplyFilters(excludedCuisines, includeFastFood, includeCafe')
    /\ lastOp' = "other"
    /\ UNCHANGED <<excludedCuisines, includeFastFood>>
    /\ FilterFrame

(***************************************************************************)
(* initialize(): the part before the fetch is awaited, and the two ways    *)
(* the awaited fetch ends.                                                 *)
(***************************************************************************)
\* initialize() up to `await fetchPlaces()` / `await loadPlaces()`
InitializeStart(city) ==
    IF HasCityPicker(variant) /\ city = NoCity
    THEN /\ spinBtnDisabled' = TRUE
         /\ statusMessage' = "Select a city to start."
         /\ UNCHANGED <<resultHidden, runs>>
    ELSE /\ spinBtnDisabled' = TRUE
         /\ resultHidden' = TRUE
         /\ statusMessage' = "Fetching"
         /\ runs' = RunsAfterStart(variant, runs, city)

StartFrame ==
    /\ threw' = FALSE
    /\ UNCHANGED <<variant, allPlaces, uniqueCuisines, excludedCuisines,
                   includeFastFood, includeCafe, currentFiltered, isSpinning,
                   accumulatedRotation, resultCard, timers, spinCount, sel, net>>

\* Faulty variant of the reload handler: the selectedCity test is missing
\* and a run is started whatever the Location.
ReloadFetchingAnyway(maxRuns) ==
    /\ Len(runs) < maxRuns
    /\ spinBtnDisabled' = TRUE
    /\ resultHidden' = TRUE
    /\ statusMessage' = "Fetching"
    /\ runs' = RunsAfterStart(variant, runs, selectedCity)
    /\ lastOp' = "other"
    /\ UNCHANGED <<selectedCity, storage>>
    /\ StartFrame

\* click on reloadBtn, with fewer than maxRuns runs in flight
ReloadWithin(maxRuns) ==
    /\ Len(runs) < maxRuns
    /\ IF HasCityPicker(variant) /\ selectedCity = NoCity
       THEN /\ statusMessage' = "Select a city first."
            /\ UNCHANGED <<spinBtnDisabled, resultHidden, runs>>
       ELSE InitializeStart(selectedCity)
    /\ lastOp' = "other"
    /\ UNCHANGED <<selectedCity, storage>>
    /\ StartFrame

Reload == ReloadWithin(MaxRuns)

\* Faulty variant of setSelectedCity: the localStorage.setItem is missing.
SetSelectedCityNotStoring(cities, maxRuns) ==
    /\ HasCityPicker(variant)
    /\ Len(runs) < maxRuns
    /\ \E city \in cities :
         /\ selectedCity' = city
         /\ InitializeStart(city)
    /\ lastOp' = "other"
    /\ UNCHANGED storage
    /\ StartFrame

\* click on a candidate of the city list: setSelectedCity(city), for a
\* candidate among `cities` and with fewer than maxRuns runs in flight
SetSelectedCityAmong(cities, maxRuns) ==
    /\ HasCityPicker(variant)
    /\ Len(runs) < maxRuns
    /\ \E city \in cities :
         /\ selectedCity' = city
         /\ storage' = setItem(storage, Serialize(city))
         /\ InitializeStart(city)
    /\ lastOp' = "other"
    /\ StartFrame

SetSelectedCity == SetSelectedCityAmong(Cities, MaxRuns)

\* Faulty variant of the landing: `excludedCuisines = new Set()` is missing.
FetchLandKeepingExclusions ==
    \E i \in 1 .. Len(runs) : \E c \in runs[i].queried : \E elements \in ResponsesAt(variant, c) :
      /\ IsFood(variant) \/ Len(elements) > 0
      /\ LET places == LoadPlaces(variant, elements)
             unique == CollectUnique(variant, places)
             list == Filtered(variant, places, unique, excludedCuisines,
                              includeFastFood, includeCafe)
         IN  /\ allPlaces' = places
             /\ uniqueCuisines' = unique
             /\ currentFiltered' = list
             /\ statusMessage' = StatusAfterFilters(variant, list)
             /\ spinBtnDisabled' = (Len(list) = 0)
      /\ runs' = SubSeq(runs, 1, i - 1) \o SubSeq(runs, i + 1, Len(runs))
      /\ lastOp' = "other"
      /\ threw' = FALSE
      /\ UNCHANGED <<variant, selectedCity, excludedCuisines, includeFastFood,
                     includeCafe, isSpinning, accumulatedRotation, resultHidden,
                     resultCard, timers, spinCount, sel, net, storage>>

\* the fetch of run i is accepted with json.elements = elements:
\* the rest of initialize()
FetchLand ==
    \E i \in 1 .. Len(runs) : \E c \in runs[i].queried : \E elements \in ResponsesAt(variant, c) :
      /\ IsFood(variant) \/ Len(elements) > 0
      /\ LET places == LoadPlaces(variant, elements)
             unique == CollectUnique(variant, places)
             list == Filtered(variant, places, unique, {}, includeFastFood, includeCafe)
         IN  /\ allPlaces' = places
             /\ uniqueCuisines' = unique
             /\ excludedCuisines' = {}
             /\ currentFiltered' = list
             /\ statusMessage' = StatusAfterFilters(variant, list)
             /\ spinBtnDisabled' = (Len(list) = 0)
      /\ runs' = SubSeq(runs, 1, i - 1) \o SubSeq(runs, i + 1, Len(runs))
      /\ lastOp' = "other"
      /\ threw' = FALSE
      /\ UNCHANGED <<variant, selectedCity, includeFastFood, includeCafe, isSpinning,
                     accumulatedRotation, resultHidden, resultCard, timers,
                     spinCount, sel, net, storage>>

\* Faulty variant of the catch block: the venues are dropped on failure.
FetchFailClearing ==
    \E i \in 1 .. Len(runs) :
      /\ statusMessage' = "Failed to load data from Overpass."
      /\ allPlaces' = <<>>
      /\ currentFiltered' = <<>>
      /\ runs' = SubSeq(runs, 1, i - 1) \o SubSeq(runs, i + 1, Len(runs))
      /\ lastOp' = "other"
      /\ threw' = FALSE
      /\ UNCHANGED <<variant, selectedCity, uniqueCuisines, excludedCuisines,
                     includeFastFood, includeCafe, isSpinning,
                     accumulatedRotation, spinBtnDisabled, resultHidden, resultCard,
                     timers, spinCount, sel, net, storage>>

\* the fetch of run i throws (every mirror exhausted): the catch block
FetchFail ==
    \E i \in 1 .. Len(runs) :
      /\ statusMessage' = "Failed to load data from Overpass."
      /\ runs' = SubSeq(runs, 1, i - 1) \o SubSeq(runs, i + 1, Len(runs))
      /\ lastOp' = "other"
      /\ threw' = FALSE
      /\ UNCHANGED <<variant, selectedCity, allPlaces, uniqueCuisines, excludedCuisines,
                     includeFastFood, includeCafe, currentFiltered, isSpinning,
                     accumulatedRotation, spinBtnDisabled, resultHidden, resultCard,
                     timers, spinCount, sel, net, storage>>

Next ==
    \/ SpinWheel
    \/ SpinTimeout
    \/ ToggleCuisine
    \/ SelectNone
    \/ SelectAll
    \/ ToggleFastFood
    \/ ToggleCafe
    \/ Reload
    \/ SetSelectedCity
    \/ FetchLand
    \/ FetchFail

Spec == Init /\ [][Next]_vars

\* The timer of a started spin is a queued macrotask: the event loop runs it
\* once its delay has elapsed, whatever else is queued.
FairSpec == Spec /\ WF_vars(SpinTimeout)

(***************************************************************************)
(* Properties of the spin.                                                 *)
(***************************************************************************)
\* a step that runs the setTimeout callback of the oldest pending spin
TimerFires == timers # <<>> /\ timers' = Tail(timers)

\* a step in which spinWheel passes its early returns
SpinStarts == lastOp' = "spinWheel" /\ Len(timers') > Len(timers)

\* C1: a click that reaches spinWheel while isSpinning is true or while the
\* filtered list is empty changes neither isSpinning, nor accumulatedRotation,
\* nor the visibility of the result card, nor the pending timers.
BlockedSpinIsNoOp ==
    [][(lastOp' = "spinWheel" /\ (isSpinning \/ Len(currentFiltered) = 0))
        => UNCHANGED <<isSpinning, accumulatedRotation, resultHidden, timers>>]_vars

\* spinWheel has just returned early: the list is empty and a spin is in flight
BlockedSpinSeen ==
    /\ lastOp = "spinWheel"
    /\ isSpinning
    /\ Len(currentFiltered) = 0
    /\ accumulatedRotation > 0

\* C2: at most one spin-completion timer is pending in every reachable state.
OneTimerPending == Len(timers) <= 1

\* a click reached spinWheel while a timer was pending, and one timer is pending
SecondClickSeen ==
    /\ lastOp = "spinWheel"
    /\ ~spinBtnDisabled
    /\ Len(timers) = 1

\* C3: when the timer of a spin fires, the venue shown in the result card is
\* the one the spin designated in the filtered list as it was at the click.
RevealsPrecomputed ==
    [][TimerFires => (resultCard' = Head(timers).chosen /\ ~resultHidden')]_vars

\* C35: when the timer of a spin fires, the venue handed to showResult is
\* defined (showResult does not throw) and was in the filtered list as it
\* was when the spin started, whatever happened to the list since.
RevealsMemberOfStartList ==
    [][TimerFires => (/\ ~threw'
                      /\ \E i \in 1..Len(Head(timers).started) :
                            resultCard' = Head(timers).started[i])]_vars

\* C36: in every reachable state in which a spin is in flight the spin
\* button is disabled, whatever filter changes, reloads or fetch completions
\* happened during the spin.
ButtonDisabledWhileSpinning == isSpinning => spinBtnDisabled

\* C37: whenever no fetch is in flight, no spin is in flight and the filtered
\* list is non-empty, the spin button is enabled.
ButtonEnabledWhenIdle ==
    (runs = <<>> /\ ~isSpinning /\ currentFiltered # <<>>) => ~spinBtnDisabled

\* C38: in every reachable state the exclusion set is a subset of the current
\* category set, under any interleaving of toggles, select-all, select-none
\* and fetch completions.
ExclusionsWithinCategories == excludedCuisines \subseteq Range(uniqueCuisines)

\* some but not all of the current categories are excluded
SomeCategoriesExcluded ==
    /\ excludedCuisines # {}
    /\ Range(uniqueCuisines) \ excludedCuisines # {}

\* C4: every started spin completes: isSpinning leads to a state in which
\* isSpinning is false and the result card is shown.
SpinCompletes == isSpinning ~> (~isSpinning /\ ~resultHidden)

\* C6: a spin started on a list of exactly one venue sets isSpinning,
\* strictly increases accumulatedRotation, and its timer reveals that venue.
SingleCandidateSpin ==
    [][/\ (SpinStarts /\ Len(currentFiltered) = 1)
          => (isSpinning' /\ accumulatedRotation' > accumulatedRotation)
       /\ (TimerFires /\ Head(timers).n = 1)
          => (resultCard' = Head(timers).chosen /\ ~resultHidden')]_vars

\* C7: whenever the filtered list is empty the spin button is disabled.
EmptyListDisablesSpin == Len(currentFiltered) = 0 => spinBtnDisabled

\* C8: no step decreases accumulatedRotation (in particular none resets it).
RotationNeverDecreases == [][accumulatedRotation' >= accumulatedRotation]_vars

\* a fetch was started after two spins and the rotation of both is still there
RotationKeptAcrossReload ==
    /\ spinCount >= 2
    /\ accumulatedRotation >= 2 * MinExtraSpins * FullTurn
    /\ Len(runs) > 0
    /\ lastOp = "other"

(***************************************************************************)
(* Properties of applyFilters.  Every handler that changes the venues, the *)
(* exclusion set or a toggle ends with applyFilters, so the filtered list  *)
(* of a reachable state is the list applyFilters built from that state.    *)
(***************************************************************************)
Kept(p) == \E i \in 1 .. Len(currentFiltered) : currentFiltered[i] = p

SurvivesExclusion(p) == \E c \in Range(p.cuisine) : c \notin excludedCuisines

ToggledOff(p) ==
    \/ p.tags.amenity = "fast_food" /\ ~includeFastFood
    \/ p.tags.amenity = "cafe" /\ ~includeCafe

\* C9 as stated: a venue with one or more categories is kept if and only if
\* at least one of its categories is not in the exclusion set.
KeptIffCategorySurvives ==
    \A i \in 1 .. Len(allPlaces) :
      LET p == allPlaces[i]
      IN  Len(p.cuisine) > 0 => (Kept(p) <=> SurvivesExclusion(p))

\* C9: a venue with one or more categories that no subtype toggle of the food
\* variants removes is kept if and only if at least one of its categories is
\* not in the exclusion set; a venue whose subtype toggle is off is not kept.
KeptIffCategorySurvivesToggles ==
    \A i \in 1 .. Len(allPlaces) :
      LET p == allPlaces[i]
      IN  Len(p.cuisine) > 0 =>
            IF IsFood(variant) /\ ToggledOff(p)
            THEN ~Kept(p)
            ELSE Kept(p) <=> SurvivesExclusion(p)

\* a kept venue with an excluded category and a surviving one, and a removed
\* venue all of whose categories are excluded
PartlyExcludedKept ==
    /\ \E i \in 1 .. Len(currentFiltered) :
         /\ SurvivesExclusion(currentFiltered[i])
         /\ \E c \in Range(currentFiltered[i].cuisine) : c \in excludedCuisines
    /\ \E i \in 1 .. Len(allPlaces) :
         /\ Len(allPlaces[i].cuisine) > 0
         /\ ~SurvivesExclusion(allPlaces[i])
         /\ ~Kept(allPlaces[i])

\* C10 as stated: a venue with zero categories is kept, whatever the
\* exclusion set is.
UncategorizedKept ==
    \A i \in 1 .. Len(allPlaces) :
      Len(allPlaces[i].cuisine) = 0 => Kept(allPlaces[i])

\* C10: in the food variants a venue with zero categories is kept, whatever
\* the exclusion set is, exactly when no subtype toggle removes it; booze.js
\* never keeps a venue with zero types, and in part_001 no such venue is
\* among the loaded venues.
UncategorizedKeptInFood ==
    /\ \A i \in 1 .. Len(allPlaces) :
         LET p == allPlaces[i]
         IN  Len(p.cuisine) = 0 => (Kept(p) <=> (IsFood(variant) /\ ~ToggledOff(p)))
    /\ variant = "BoozeLafayette" =>
         \A i \in 1 .. Len(allPlaces) : Len(allPlaces[i].cuisine) > 0

\* every category is excluded and a venue with zero categories is kept
UncategorizedKeptAllExcluded ==
    /\ uniqueCuisines # <<>>
    /\ excludedCuisines = Range(uniqueCuisines)
    /\ \E i \in 1 .. Len(currentFiltered) : Len(currentFiltered[i].cuisine) = 0

\* C11: applyFilters run again on the state it has produced (same venues,
\* same exclusion set, same toggles) yields the filtered list that is there.
ReapplyChangesNothing ==
    Filtered(variant, allPlaces, uniqueCuisines, excludedCuisines,
             includeFastFood, includeCafe) = currentFiltered

\* applyFilters has removed some venues and kept at least two
FilteredSomeKeptSome ==
    /\ Len(currentFiltered) >= 2
    /\ Len(currentFiltered) < Len(allPlaces)
    /\ excludedCuisines # {}

\* C12 as stated: the filtered list is a strict subset of allPlaces.
FilteredStrictSubset ==
    /\ Range(currentFiltered) \subseteq Range(allPlaces)
    /\ Range(currentFiltered) # Range(allPlaces)

\* C12: the filtered list is a sub-list of allPlaces (venues of allPlaces in
\* the order of allPlaces), possibly all of allPlaces.
FilteredSubList ==
    currentFiltered = SelectSeq(allPlaces, LAMBDA p : p \in Range(currentFiltered))

\* nothing is filtered out: the filtered list is the whole venue list
FilteredIsEverything == Len(allPlaces) >= 2 /\ currentFiltered = allPlaces

(***************************************************************************)
(* Properties of initialize().                                             *)
(***************************************************************************)
\* a step in which a run of initialize() ends after its fetch was accepted
Lands ==
    /\ Len(runs') < Len(runs)
    /\ statusMessage' # "Failed to load data from Overpass."

\* a step in which a run of initialize() ends in its catch block
Fails ==
    /\ Len(runs') < Len(runs)
    /\ statusMessage' = "Failed to load data from Overpass."

\* C13: when a fetch lands the exclusion set is empty afterwards, and any
\* other step that changes the exclusion set is the toggle of one category,
\* select-all or select-none.
ExclusionsResetOnLanding ==
    [][/\ Lands => excludedCuisines' = {}
       /\ (excludedCuisines' # excludedCuisines /\ ~Lands)
            => (ToggleCuisine \/ SelectAll \/ SelectNone)]_vars

\* a spin is in flight whose venue is not among the venues that have landed
\* since, and nothing is excluded
LandedDuringSpin ==
    /\ timers # <<>>
    /\ allPlaces # <<>>
    /\ Head(timers).chosen \notin Range(allPlaces)
    /\ excludedCuisines = {}

\* C14: a fetch that fails leaves the venue list, the category list, the
\* exclusion set, the filtered list and accumulatedRotation as they are.
FailureKeepsData ==
    [][Fails => UNCHANGED <<allPlaces, uniqueCuisines, excludedCuisines,
                            currentFiltered, accumulatedRotation>>]_vars

\* a fetch has failed and the venues, exclusions and rotation of before are there
FailedWithDataKept ==
    /\ statusMessage = "Failed to load data from Overpass."
    /\ Len(currentFiltered) > 0
    /\ excludedCuisines # {}
    /\ accumulatedRotation > 0

\* C15: no two venues of allPlaces have the same id.
NoDuplicateIds ==
    \A i, j \in 1 .. Len(allPlaces) :
      allPlaces[i].id = allPlaces[j].id => i = j

\* the venues come from a response that repeats an element
LandedFromRepeatingResponse ==
    \E r \in Responses(variant) :
      /\ allPlaces = LoadPlaces(variant, r)
      /\ \E i, j \in 1 .. Len(r) :
           i # j /\ r[i].type = r[j].type /\ r[i].id = r[j].id

\* a change of filter: one category, all, none, or a subtype toggle
FilterChange == ToggleCuisine \/ SelectAll \/ SelectNone \/ ToggleFastFood \/ ToggleCafe

\* C27: a change of filter rebuilds the filtered list from the venue list
\* held: it starts no fetch and leaves the venue list, the category list,
\* the Location and the rotation unchanged.
FilterChangeRefetchesNothing ==
    [][FilterChange
         => /\ runs' = runs
            /\ UNCHANGED <<allPlaces, uniqueCuisines, selectedCity, accumulatedRotation>>
            /\ currentFiltered' =
                 Filtered(variant, allPlaces, uniqueCuisines, excludedCuisines',
                          includeFastFood', includeCafe')]_vars

\* a category was excluded after a spin, and the list got shorter
FilteredAfterSpin ==
    /\ accumulatedRotation > 0
    /\ excludedCuisines # {}
    /\ allPlaces # <<>>
    /\ Len(currentFiltered) < Len(allPlaces)

\* C31: in the food variants no fast_food venue is in the filtered list
\* while "include fast food" is off and no cafe while "include cafe" is off,
\* whatever their cuisines and the exclusion set; a venue of another subtype
\* is in the list exactly when it has no cuisine or one that is not
\* excluded, whatever the toggles.
SubtypeTogglesRemove ==
    IsFood(variant) =>
      /\ ~includeFastFood
           => \A p \in Range(currentFiltered) : p.tags.amenity # "fast_food"
      /\ ~includeCafe
           => \A p \in Range(currentFiltered) : p.tags.amenity # "cafe"
      /\ \A p \in Range(allPlaces) :
           p.tags.amenity \notin {"fast_food", "cafe"}
             => (p \in Range(currentFiltered)
                   <=> (p.cuisine = <<>>
                        \/ \E c \in Range(p.cuisine) : c \notin excludedCuisines))

\* fast food is switched off: a fast_food venue none of whose cuisines is
\* excluded is held back while a restaurant is still in the list
FastFoodHeldBack ==
    /\ IsFood(variant)
    /\ ~includeFastFood
    /\ \E p \in Range(allPlaces) :
         /\ p.tags.amenity = "fast_food"
         /\ p.cuisine # <<>>
         /\ \A c \in Range(p.cuisine) : c \notin excludedCuisines
         /\ p \notin Range(currentFiltered)
    /\ \E p \in Range(currentFiltered) : p.tags.amenity = "restaurant"

(***************************************************************************)
(* The selection experiment: the winner of a spin as a function of the     *)
(* random draw.  For a list of n venues the draw that decides the winner   *)
(* (the first Math.random() of part_000 and booze.js, the randomPart of    *)
(* app.js and part_001) runs through the grid k / den, den = n *           *)
(* DrawsPerIndex, and the winners are tallied.  Angles are counted in      *)
(* units of which 4 * visualCount * den make a full turn, so that every    *)
(* angle of the computation is an integer.                                 *)
(***************************************************************************)
SelSizes == {1, 2, 3, MAX_VISUAL_SLICES + 1}

SelDen(n) == n * DrawsPerIndex

SelTurn(v, n) == 4 * VisualCount(v, n) * SelDen(n)

\* rotations the wheel may rest at when the spin starts
SelRests(v, n) == {0, MinExtraSpins * SelTurn(v, n) + 3 * SelDen(n)}

InitSel ==
    /\ InitPage
    /\ net = NetIdle
    /\ \E n \in SelSizes :
         \E acc \in SelRests(variant, n), other \in {0, SelDen(n) - 1} :
           sel = [phase |-> "tally", n |-> n, acc |-> acc, other |-> other,
                  next |-> 0, counts |-> [i \in 0 .. n - 1 |-> 0]]

\* one spin on the list of sel.n venues with the deciding draw sel.next
SelDraw ==
    /\ sel.next < SelDen(sel.n)
    /\ LET n == sel.n
           den == SelDen(n)
           turn == SelTurn(variant, n)
           k1 == IF Preselects(variant) THEN sel.next ELSE sel.other
           k2 == IF Preselects(variant) THEN sel.other ELSE sel.next
           finalRotation ==
             FinalRotation(variant, sel.acc, n, k1, k2, sel.other, den, turn)
           index == SpinIndex(variant, n, k1, finalRotation, den, turn)
       IN  sel' = [sel EXCEPT !.next = @ + 1, !.counts[index] = @ + 1]
    /\ UNCHANGED <<variant, selectedCity, allPlaces, uniqueCuisines, excludedCuisines,
                   includeFastFood, includeCafe, currentFiltered, isSpinning,
                   accumulatedRotation, spinBtnDisabled, resultHidden, resultCard,
                   statusMessage, timers, runs, threw, spinCount, lastOp, net, storage>>

SelNext == SelDraw

SpecSel == InitSel /\ [][SelNext]_vars

\* C5: over the whole grid of the deciding draw, every index of the list is
\* the winner for the same number of draws (DrawsPerIndex of them, a share
\* of 1/n), with visual compression (n > MAX_VISUAL_SLICES) and without.
WinnerUniform ==
    sel.next = SelDen(sel.n) =>
      \A i \in 0 .. sel.n - 1 : sel.counts[i] * sel.n = SelDen(sel.n)

\* the tally of a list larger than the wheel can draw, in a variant that
\* compresses the wheel, is complete
CompressedTallyDone ==
    /\ sel.next = SelDen(sel.n)
    /\ sel.n > MAX_VISUAL_SLICES
    /\ VisualCount(variant, sel.n) < sel.n

\* the candidates of a list of n that the wheel of visualCount slices shows
\* in slice s
SliceMembers(s, visualCount, n) ==
    {i \in 0 .. n - 1 : VisualIndex(i, visualCount, n) = s}

\* C29: for the list the spins were made on, the slice mapping sends every
\* index into 0 .. visualCount - 1, never decreases from an index to the
\* next, leaves no slice without candidate, and the numbers of candidates
\* of any two slices differ by at most one.
SlicesBalanced ==
    (sel.phase = "tally" /\ sel.next = SelDen(sel.n) /\ Preselects(variant)) =>
      LET n == sel.n
          visualCount == Min(n, 200)
          sizes == {Cardinality(SliceMembers(s, visualCount, n)) : s \in 0 .. visualCount - 1}
      IN  /\ \A i \in 0 .. n - 1 : VisualIndex(i, visualCount, n) \in 0 .. visualCount - 1
          /\ \A i \in 0 .. n - 2 :
               VisualIndex(i, visualCount, n) <= VisualIndex(i + 1, visualCount, n)
          /\ 0 \notin sizes
          /\ \A a, b \in sizes : a - b <= 1

\* every candidate of a list one longer than the wheel has been drawn, and
\* the first two candidates share the first slice
FirstSliceShared ==
    /\ sel.phase = "tally"
    /\ sel.next = SelDen(sel.n)
    /\ Preselects(variant)
    /\ sel.n = 201
    /\ SliceMembers(0, 200, sel.n) = {0, 1}

(***************************************************************************)
(* The venue fetcher: one call of fetchPlaces (food variants) or           *)
(* fetchOverpass (booze variants), one step per resumption of the async    *)
(* function.  What each mirror answers is chosen when its response         *)
(* arrives.  net.i is the position in the (shuffled) mirror list,          *)
(* net.pending the requests of this call that are outstanding, net.log the *)
(* answers received so far.                                                *)
(***************************************************************************)
Mirrors(v) == IF v = "FoodLafayette" THEN MirrorsOfApp ELSE MirrorsOfOthers

\* an answer: ok is FALSE when fetch rejects, the status is not ok or the
\* body is not JSON; otherwise elements is json.elements
Outcomes(v) ==
    {[ok |-> FALSE, elements |-> <<>>]}
      \cup {[ok |-> TRUE, elements |-> e] : e \in Responses(v)}

NetFetchStart ==
    [phase |-> "call", tier |-> "broad", i |-> 0, pending |-> <<>>,
     log |-> <<>>, lastErr |-> FALSE, result |-> <<>>]

InitNet == InitPage /\ sel = SelIdle /\ net = NetFetchStart

PageUnchanged ==
    UNCHANGED <<variant, selectedCity, allPlaces, uniqueCuisines, excludedCuisines,
                includeFastFood, includeCafe, currentFiltered, isSpinning,
                accumulatedRotation, spinBtnDisabled, resultHidden, resultCard,
                statusMessage, timers, runs, threw, spinCount, lastOp, sel, storage>>

\* Faulty variant of `await fetch(...)`: the loop goes on without awaiting.
IssuePhaseNoAwait == "call"

\* `const res = await fetch(...)`: the function is suspended on the request
IssuePhase == "await"

\* Faulty variant of the loop exit: there is no second loop.
AdvanceSingleTier(v, n) ==
    IF n.i + 1 < Mirrors(v)
    THEN [n EXCEPT !.i = n.i + 1, !.phase = "call"]
    ELSE [n EXCEPT !.phase = "threw"]

\* Faulty variant of the loop exit: nothing is thrown after the loops and
\* the call neither returns nor fails.
AdvanceWithoutThrow(v, n) ==
    IF n.i + 1 < Mirrors(v)
    THEN [n EXCEPT !.i = n.i + 1, !.phase = "call"]
    ELSE IF ~IsFood(v) /\ n.tier = "broad"
         THEN [n EXCEPT !.tier = "narrow", !.i = 0, !.phase = "call"]
         ELSE [n EXCEPT !.phase = "exhausted"]

\* Faulty variant of the loop exit: the first loop is left after its first
\* iteration.
AdvanceNarrowAfterFirst(v, n) ==
    IF ~IsFood(v) /\ n.tier = "broad"
    THEN [n EXCEPT !.tier = "narrow", !.i = 0, !.phase = "call"]
    ELSE IF n.i + 1 < Mirrors(v)
         THEN [n EXCEPT !.i = n.i + 1, !.phase = "call"]
         ELSE [n EXCEPT !.phase = "threw"]

\* the end of one loop iteration that did not return: the next mirror, the
\* second loop (booze variants), or the throw after the loops
Advance(v, n) ==
    IF n.i + 1 < Mirrors(v)
    THEN [n EXCEPT !.i = n.i + 1, !.phase = "call"]
    ELSE IF ~IsFood(v) /\ n.tier = "broad"
         THEN [n EXCEPT !.tier = "narrow", !.i = 0, !.phase = "call"]
         ELSE [n EXCEPT !.phase = "threw"]

\* fetch(url, ...) is called
NetIssue ==
    /\ net.phase = "call"
    /\ net' = [net EXCEPT !.pending = Append(@, <<net.tier, net.i>>),
                          !.phase = IssuePhase]
    /\ PageUnchanged

\* the outstanding request settles and the function runs to its next await
NetRespond ==
    /\ net.phase = "await"
    /\ net.pending # <<>>
    /\ \E o \in Outcomes(variant) :
         LET heard == [net EXCEPT !.pending = Tail(@),
                                  !.log = Append(@, [tier |-> Head(net.pending)[1],
                                                     mirror |-> Head(net.pending)[2],
                                                     ok |-> o.ok,
                                                     elements |-> o.elements])]
         IN  net' =
               IF IsFood(variant)
               THEN IF o.ok
                    THEN [heard EXCEPT !.phase = "returned", !.result = o.elements]
                    ELSE Advance(variant, [heard EXCEPT !.lastErr = TRUE])
               ELSE IF o.ok /\ Len(o.elements) > 0
                    THEN [heard EXCEPT !.phase = "returned", !.result = o.elements]
                    ELSE [heard EXCEPT !.phase = "backoff",
                                       !.lastErr = @ \/ ~o.ok]
    /\ PageUnchanged

\* booze variants: the backoff timer `500 + i * 300` elapses
NetBackoff ==
    /\ net.phase = "backoff"
    /\ net' = Advance(variant, net)
    /\ PageUnchanged

NetNext == NetIssue \/ NetRespond \/ NetBackoff

SpecNet == InitNet /\ [][NetNext]_vars

Unusable(e) == ~e.ok \/ e.elements = <<>>

\* C16: the response the fetcher accepts is never empty: it returns the
\* elements of the first answer that is successful and non-empty, and every
\* answer before it was a failure or empty.
AcceptsFirstNonEmpty ==
    net.phase = "returned" =>
      /\ Len(net.result) > 0
      /\ net.result = net.log[Len(net.log)].elements
      /\ \A k \in 1 .. Len(net.log) - 1 : Unusable(net.log[k])

\* C17: in the variants with two queries the fetcher throws only after every
\* mirror has failed or answered without elements on the broad and on the
\* narrow query, and otherwise returns the elements of the first answer
\* that has some; the broad query goes to every mirror before the narrow one.
TwoTierOutcome ==
    ~IsFood(variant) =>
      /\ \A k \in 1 .. Len(net.log) :
           net.log[k].tier = (IF k <= Mirrors(variant) THEN "broad" ELSE "narrow")
      /\ net.phase = "threw" =>
           /\ Len(net.log) = 2 * Mirrors(variant)
           /\ \A k \in 1 .. Len(net.log) : Unusable(net.log[k])
      /\ (Len(net.log) = 2 * Mirrors(variant) /\ Unusable(net.log[Len(net.log)]))
           => net.phase \in {"backoff", "threw"}
      /\ net.phase = "returned" =>
           /\ ~Unusable(net.log[Len(net.log)])
           /\ net.result = net.log[Len(net.log)].elements
           /\ \A k \in 1 .. Len(net.log) - 1 : Unusable(net.log[k])

\* every mirror failed on the broad query and the first mirror answered the
\* narrow query with elements
NarrowQueryRescues ==
    /\ ~IsFood(variant)
    /\ net.phase = "returned"
    /\ Len(net.log) = Mirrors(variant) + 1
    /\ \A k \in 1 .. Mirrors(variant) : ~net.log[k].ok
    /\ Len(net.result) > 0

\* C18: at most one request of a fetcher call is outstanding.
OneRequestOutstanding == Len(net.pending) <= 1

\* a request of the narrow query is outstanding after earlier mirrors have
\* answered
LaterRequestOutstanding ==
    /\ Len(net.pending) = 1
    /\ net.tier = "narrow"
    /\ net.i > 0
    /\ Len(net.log) = Mirrors(variant) + net.i

\* every request settles and every timer elapses
FairSpecNet == SpecNet /\ WF_vars(NetNext)

\* C34: a fetcher call whose requests all settle ends, by returning a list
\* or by throwing.
FetchTerminates == <>(net.phase \in {"returned", "threw"})

\* the food fetcher has thrown after one failed request per mirror
FoodFetchExhausted ==
    /\ IsFood(variant)
    /\ net.phase = "threw"
    /\ Len(net.log) = Mirrors(variant)
    /\ net.lastErr

\* the requests a fetcher call has issued so far, as <<query, position in
\* the shuffled mirror list>>, in the order of issue
Issued ==
    [k \in 1 .. Len(net.log) |-> <<net.log[k].tier, net.log[k].mirror>>] \o net.pending

\* C32: in the variants with two queries the k-th request of a call goes to
\* mirror (k - 1) mod |mirrors| of the shuffled list, with the broad query
\* for the first |mirrors| requests and the narrow one after them, and there
\* are at most 2 x |mirrors| requests: no narrow request before every mirror
\* was tried with the broad query, and each mirror once per pass in the
\* same order.
PassesInOrder ==
    ~IsFood(variant) =>
      /\ Len(Issued) <= 2 * Mirrors(variant)
      /\ \A k \in 1 .. Len(Issued) :
           Issued[k] = <<IF k <= Mirrors(variant) THEN "broad" ELSE "narrow",
                         (k - 1) % Mirrors(variant)>>

\* the last mirror is being asked the narrow query
LastNarrowRequestIssued ==
    /\ ~IsFood(variant)
    /\ net.pending = << <<"narrow", Mirrors(variant) - 1>> >>
    /\ Len(net.log) = 2 * Mirrors(variant) - 1

(***************************************************************************)
(* The city race: location changes, reloads and category toggles while     *)
(* fetches are in flight, with two cities to choose from.  The spin is     *)
(* left out.                                                               *)
(***************************************************************************)
RaceCities == Cities \cup {OtherCity}

RaceSetSelectedCity == SetSelectedCityAmong(RaceCities, RaceMaxRuns)

RaceReload == ReloadWithin(RaceMaxRuns)

RaceNext ==
    \/ RaceSetSelectedCity
    \/ RaceReload
    \/ FetchLand
    \/ FetchFail
    \/ ToggleCuisine

SpecRace == Init /\ [][RaceNext]_vars

\* the venues the mirrors may give for `city`
VenuesOf(v, city) ==
    UNION { Range(LoadPlaces(v, r)) : r \in ResponsesAt(v, city) }

\* C19: a location change or reload cancels no fetch: the runs in flight
\* stay in flight and one is added; and whichever run lands, an earlier one
\* after a later one included, the venue list, the category list, the
\* exclusion set and the filtered list become those of its response.
StaleFetchOverwrites ==
    [][/\ (selectedCity' # selectedCity \/ Len(runs') > Len(runs))
            => /\ Len(runs') = Len(runs) + 1
               /\ \A k \in 1 .. Len(runs) : runs'[k].city = runs[k].city
       /\ Lands
            => \E i \in 1 .. Len(runs) : \E c \in runs[i].queried :
                 \E r \in ResponsesAt(variant, c) :
                   /\ allPlaces' = LoadPlaces(variant, r)
                   /\ uniqueCuisines' = CollectUnique(variant, allPlaces')
                   /\ excludedCuisines' = {}
                   /\ currentFiltered' =
                        Filtered(variant, allPlaces', uniqueCuisines', {},
                                 includeFastFood, includeCafe)]_vars

\* C39: every request a fetch run issues is built from the location that
\* was selected when the run started, even if another location is selected
\* before the run has finished trying mirrors.
RequestsBuiltFromStartLocation ==
    \A i \in 1 .. Len(runs) : runs[i].queried = {runs[i].city}

\* every fetch has ended, the second city is selected and the venues are
\* those of the first city
VenuesOfAnotherCity ==
    /\ runs = <<>>
    /\ selectedCity = OtherCity
    /\ allPlaces # <<>>
    /\ statusMessage # "Failed to load data from Overpass."
    /\ Range(allPlaces) \subseteq UNION { VenuesOf(variant, c) : c \in Cities }
    /\ Range(allPlaces) \cap VenuesOf(variant, OtherCity) = {}

(***************************************************************************)
(* The stored selection: the city race started from every kind of stored   *)
(* entry, with a localStorage that works or whose setItem throws.          *)
(***************************************************************************)
StoreStartup ==
    [entry : {Absent, Unparsable} \cup {WithoutBbox(c) : c \in Cities}
               \cup {Serialize(c) : c \in RaceCities},
     writable : BOOLEAN]

InitStore ==
    /\ InitPageFrom(StoreStartup)
    /\ HasCityPicker(variant)
    /\ sel = SelIdle
    /\ net = NetIdle

SpecStore == InitStore /\ [][RaceNext]_vars

\* C23: a selection makes the candidate the current Location and starts one
\* fetch run for it, and with a localStorage that accepts the writes the
\* stored entry is the serialization of the current Location after every
\* step.
SelectionCommits ==
    [][/\ (storage'.writable /\ selectedCity' # NoCity)
            => storage'.entry = Serialize(selectedCity')
       /\ RaceSetSelectedCity
            => /\ selectedCity' \in RaceCities
               /\ Len(runs') = Len(runs) + 1
               /\ runs'[Len(runs')].city = selectedCity']_vars

\* the second city was selected while the run for the stored one was in
\* flight, and is stored
SecondSelectionStored ==
    /\ Len(runs) = 2
    /\ runs[1].city # OtherCity
    /\ selectedCity = OtherCity
    /\ storage.entry = Serialize(OtherCity)

\* the "no location selected" state
NoLocationState ==
    /\ selectedCity = NoCity
    /\ runs = <<>>
    /\ allPlaces = <<>>
    /\ spinBtnDisabled
    /\ ~threw
    /\ statusMessage \in {"Select a city to start.", "Select a city first."}

\* C24: when the stored entry is absent, unparsable or without a bounding
\* box, the page starts in the "no location selected" state, and stays in it
\* for as long as no Location is selected.
StartsWithoutLocation ==
    (storage.entry.kind # "json" \/ ~storage.entry.bbox)
       => (NoLocationState /\ [](selectedCity = NoCity => NoLocationState))

\* the page has started from an entry without bounding box
StartedFromEntryWithoutBbox ==
    /\ storage.entry.kind = "json"
    /\ ~storage.entry.bbox
    /\ NoLocationState
    /\ statusMessage = "Select a city to start."

\* C25: a reload without a Location only shows the prompt: no run is
\* started and the venue list, the filtered list, the exclusion set and the
\* rotation stay as they are.
ReloadWithoutLocationPrompts ==
    [][(RaceReload /\ HasCityPicker(variant) /\ selectedCity = NoCity)
         => /\ statusMessage' = "Select a city first."
            /\ UNCHANGED <<runs, allPlaces, uniqueCuisines, currentFiltered,
                           excludedCuisines, accumulatedRotation, selectedCity,
                           spinBtnDisabled>>]_vars

\* reload was clicked without a Location
PromptShown ==
    /\ HasCityPicker(variant)
    /\ selectedCity = NoCity
    /\ statusMessage = "Select a city first."
    /\ runs = <<>>

(***************************************************************************)
(* The city search (part_000 and booze.js): one run of the debounced input *)
(* callback, with searchCities and searchCitiesPhoton inlined, one step    *)
(* per answer.  net.a and net.b are the replies to the two Nominatim       *)
(* requests, net.photon the replies Photon gave, in order.                 *)
(***************************************************************************)
NominatimItem(class, type, addresstype, addrCity, osmId) ==
    [class |-> class, type |-> type, addresstype |-> addresstype,
     addrCity |-> addrCity, osm_id |-> osmId]

itCity == NominatimItem("place", "city", "city", TRUE, 1)
itAdmin == NominatimItem("boundary", "administrative", "city", TRUE, 1)
itCounty == NominatimItem("boundary", "administrative", "county", FALSE, 2)
itRoad == NominatimItem("highway", "residential", "road", TRUE, 3)

\* a body longer than the limit=15 the request asks for
ManyTowns == [k \in 1 .. MaxCityResults + 1 |->
                NominatimItem("place", "town", "town", TRUE, 10 + k)]

\* a reply to a geocoding request: ok is FALSE for a rejected fetch and for
\* a non-ok status, whose body the program never reads
Reply(ok, body) == [ok |-> ok, body |-> body]

NominatimAnswers ==
    { Reply(FALSE, <<itCity>>), Reply(TRUE, <<>>), Reply(TRUE, <<itRoad, itCounty>>),
      Reply(TRUE, <<itCity, itRoad>>), Reply(TRUE, <<itAdmin, itCity, itCity>>),
      Reply(TRUE, ManyTowns) }

\* Faulty variant of tryFetch: the body is read whatever the status.
tryFetchIgnoringStatus(reply) == reply.body

\* tryFetch: the parsed body of an ok reply, [] otherwise
tryFetch(reply) == IF reply.ok THEN reply.body ELSE <<>>

PlaceTypes ==
    {"city", "town", "village", "borough", "hamlet", "suburb", "neighbourhood",
     "city_district", "municipality", "township", "locality", "cdp"}

isCityLike(item) ==
    \/ item.class = "place" /\ item.type \in PlaceTypes
    \/ /\ item.class = "boundary" /\ item.type = "administrative"
       /\ (item.addresstype \in PlaceTypes \/ item.addrCity)

\* key `${it.class}:${it.osm_id}`
GeoKey(item) == <<item.class, item.osm_id>>

RECURSIVE GeoDedupeLoop(_, _, _)
GeoDedupeLoop(items, seen, out) ==
    IF items = <<>> THEN out
    ELSE IF GeoKey(Head(items)) \notin seen
         THEN GeoDedupeLoop(Tail(items), seen \cup {GeoKey(Head(items))},
                            Append(out, Head(items)))
         ELSE GeoDedupeLoop(Tail(items), seen, out)

\* the merged, city-filtered and deduplicated result of the two requests
GeoDeduped(a, b) ==
    GeoDedupeLoop(SelectSeq(tryFetch(a) \o tryFetch(b), isCityLike), {}, <<>>)

Slice(items, n) == SubSeq(items, 1, Min(Len(items), n))

\* a Photon feature: properties.osm_key, properties.osm_value, and whether
\* it has an extent or finite coordinates
PhotonFeature(key, value, located, osmId) ==
    [osm_key |-> key, osm_value |-> value, located |-> located, osm_id |-> osmId]

PhotonAllowed ==
    {"city", "town", "village", "borough", "hamlet", "suburb", "neighbourhood",
     "municipality", "locality"}

ManyFeatures == [k \in 1 .. MaxCityResults + 1 |->
                   PhotonFeature("place", "village", TRUE, 30 + k)]

\* the replies Photon may give, body being json.features
PhotonAnswers ==
    { Reply(FALSE, <<PhotonFeature("place", "town", TRUE, 6)>>),
      Reply(TRUE, <<>>),
      Reply(TRUE, <<PhotonFeature("highway", "residential", TRUE, 4),
                    PhotonFeature("place", "town", FALSE, 5)>>),
      Reply(TRUE, <<PhotonFeature("place", "town", TRUE, 6),
                    PhotonFeature("place", "county", TRUE, 7)>>),
      Reply(TRUE, ManyFeatures) }

\* the items searchCitiesPhoton builds from json.features
PhotonItems(features) ==
    LET kept == SelectSeq(features, LAMBDA f :
                  f.osm_key = "place" /\ f.osm_value \in PhotonAllowed /\ f.located)
    IN  [k \in 1 .. Len(kept) |->
           NominatimItem("place", kept[k].osm_value, kept[k].osm_value, TRUE,
                         <<"photon", kept[k].osm_id>>)]

\* searchCitiesPhoton: [] for a rejected fetch or a non-ok status
searchCitiesPhoton(reply) == IF reply.ok THEN PhotonItems(reply.body) ELSE <<>>

\* Faulty variant of the fallback test: Photon is always asked.
NeedsSecondaryAlways(deduped) == TRUE

\* `if (deduped.length === 0)`
NeedsSecondary(deduped) == Len(deduped) = 0

\* the callback of part_000 calls searchCitiesPhoton itself when
\* searchCities returned no item; the one of booze.js renders what it got
AsksAgain(v, items) == IsFood(v) /\ Len(items) = 0

\* renderCityResults: the "No results" line or one button per item
renderCityResults(items) ==
    [rendered |-> items,
     shown |-> IF Len(items) = 0 THEN "No results" ELSE "candidates"]

\* the callback has called searchCities, which has sent the free-form request
GeoStart ==
    [phase |-> "awaitA", a |-> Reply(FALSE, <<>>), b |-> Reply(FALSE, <<>>),
     photon |-> <<>>, rendered |-> <<>>, shown |-> ""]

InitGeo == InitPage /\ HasCityPicker(variant) /\ sel = SelIdle /\ net = GeoStart

\* the callback ends with the items of searchCities or of its own request
GeoRender(n, items) ==
    [n EXCEPT !.rendered = renderCityResults(items).rendered,
              !.shown = renderCityResults(items).shown,
              !.phase = "done"]

\* resultsA arrives; the city= request is sent
GeoAnswerA ==
    /\ net.phase = "awaitA"
    /\ \E a \in NominatimAnswers : net' = [net EXCEPT !.a = a, !.phase = "awaitB"]
    /\ PageUnchanged

\* resultsB arrives: searchCities returns the candidates, or asks Photon
GeoAnswerB ==
    /\ net.phase = "awaitB"
    /\ \E b \in NominatimAnswers :
         LET deduped == GeoDeduped(net.a, b)
             items == Slice(deduped, MaxCityResults)
             n == [net EXCEPT !.b = b]
         IN  net' =
               IF NeedsSecondary(deduped)
               THEN [n EXCEPT !.phase = "awaitPhoton"]
               ELSE IF AsksAgain(variant, items)
                    THEN [n EXCEPT !.phase = "awaitPhotonAgain"]
                    ELSE GeoRender(n, items)
    /\ PageUnchanged

\* Photon answers inside searchCities; the callback renders the items or,
\* in part_000 and if there are none, calls searchCitiesPhoton itself
GeoAnswerPhoton ==
    /\ net.phase = "awaitPhoton"
    /\ \E f \in PhotonAnswers :
         LET items == searchCitiesPhoton(f)
             n == [net EXCEPT !.photon = Append(@, f)]
         IN  net' =
               IF AsksAgain(variant, items)
               THEN [n EXCEPT !.phase = "awaitPhotonAgain"]
               ELSE GeoRender(n, items)
    /\ PageUnchanged

\* Photon answers the callback's own request; the result is rendered
GeoAnswerPhotonAgain ==
    /\ net.phase = "awaitPhotonAgain"
    /\ \E f \in PhotonAnswers :
         net' = GeoRender([net EXCEPT !.photon = Append(@, f)], searchCitiesPhoton(f))
    /\ PageUnchanged

GeoNext == GeoAnswerA \/ GeoAnswerB \/ GeoAnswerPhoton \/ GeoAnswerPhotonAgain

SpecGeo == InitGeo /\ [][GeoNext]_vars

\* Photon has been asked: a request to it is outstanding or was answered
PhotonAsked == net.phase \in {"awaitPhoton", "awaitPhotonAgain"} \/ net.photon # <<>>

\* C20: Photon is asked only after both Nominatim requests have been
\* answered and their merged, city-filtered, deduplicated result is empty;
\* and when that result is not empty Photon is never asked.
SecondaryOnlyWhenPrimaryEmpty ==
    /\ PhotonAsked
         => (net.phase \notin {"awaitA", "awaitB"} /\ GeoDeduped(net.a, net.b) = <<>>)
    /\ (net.phase \notin {"awaitA", "awaitB"} /\ GeoDeduped(net.a, net.b) # <<>>)
         => (~PhotonAsked /\ net.phase = "done"
             /\ net.rendered = Slice(GeoDeduped(net.a, net.b), MaxCityResults))

\* Nominatim answered with places none of which is city-like, Photon was
\* asked and its candidates are rendered
SecondaryUsed ==
    /\ net.phase = "done"
    /\ net.a.ok /\ net.a.body # <<>>
    /\ net.photon # <<>>
    /\ net.rendered # <<>>

\* C21: a finished search never shows more than 15 candidates.
AtMostFifteenCandidates ==
    net.phase = "done" => Len(net.rendered) <= MaxCityResults

\* what a source yielded: nothing when the request failed, else the
\* candidates of its body
NominatimYield(reply) == IF reply.ok THEN SelectSeq(reply.body, isCityLike) ELSE <<>>

PhotonYield(reply) == IF reply.ok THEN PhotonItems(reply.body) ELSE <<>>

\* C22: the search always ends by rendering; a failed request counts as an
\* empty answer of its source, and the rendered list is empty, shown as
\* "No results", exactly when every request the search made yielded nothing.
SearchNeverFails ==
    /\ net.phase \in {"awaitA", "awaitB", "awaitPhoton", "awaitPhotonAgain", "done"}
    /\ net.phase = "done" =>
         /\ (net.shown = "No results") <=> (net.rendered = <<>>)
         /\ (net.rendered = <<>>) <=>
              /\ NominatimYield(net.a) = <<>>
              /\ NominatimYield(net.b) = <<>>
              /\ \A k \in 1 .. Len(net.photon) : PhotonYield(net.photon[k]) = <<>>

\* every request of a search failed and "No results" is shown
AllSourcesFailed ==
    /\ net.phase = "done"
    /\ ~net.a.ok /\ ~net.b.ok
    /\ net.photon # <<>>
    /\ \A k \in 1 .. Len(net.photon) : ~net.photon[k].ok
    /\ net.shown = "No results"

(***************************************************************************)
(* computeSearchRadiusMeters (part_000 and booze.js).  Coordinates are in  *)
(* thousandths of a degree, distances in metres, the radius in hundredths  *)
(* of a metre so that the padding factor 1.05 stays exact.  NaN is what    *)
(* parseFloat gives for a missing or malformed edge.                       *)
(***************************************************************************)
NaN == -999999999
IsFinite(x) == x # NaN

Abs(x) == IF x >= 0 THEN x ELSE -x
Max(a, b) == IF a >= b THEN a ELSE b

\* R * Math.PI / 180, metres per degree of a great circle
MetresPerDegree == 111195

\* 1000 * cos(lat) at the latitudes of RadiusLats
CosPermille(lat) == IF Abs(lat) = 60000 THEN 500 ELSE 1000

\* haversineDistanceMeters along a meridian: R times the latitude difference
HaversineNS(lat1, lat2) == (MetresPerDegree * Abs(lat2 - lat1)) \div 1000

\* haversineDistanceMeters along the parallel of lat, for the small
\* longitude differences of a city: R * cos(lat) times the difference
HaversineEW(lat, lon1, lon2) ==
    (((MetresPerDegree * Abs(lon2 - lon1)) \div 1000) * CosPermille(lat)) \div 1000

DefaultRadius(v) == IF IsFood(v) THEN 9000 ELSE 12000
MIN_R == 2500
MAX_R == 30000

\* Faulty variant of the clamp: the lower limit is missing.
ClampFromAbove(r) == Min(MAX_R * 100, r)

\* Math.max(MIN_R, Math.min(MAX_R, r))
Clamp(r) == Max(MIN_R * 100, Min(MAX_R * 100, r))

NoBbox == [missing |-> TRUE, south |-> NaN, west |-> NaN, north |-> NaN, east |-> NaN]
Bbox(south, west, north, east) ==
    [missing |-> FALSE, south |-> south, west |-> west, north |-> north, east |-> east]

computeSearchRadiusMeters(v, bbox, lat, lon) ==
    IF bbox.missing \/ ~IsFinite(lat) \/ ~IsFinite(lon) THEN DefaultRadius(v) * 100
    ELSE IF ~(\A x \in {bbox.south, bbox.west, bbox.north, bbox.east} : IsFinite(x))
    THEN DefaultRadius(v) * 100
    ELSE LET dNorth == HaversineNS(lat, bbox.north)
             dSouth == HaversineNS(lat, bbox.south)
             dEast == HaversineEW(lat, lon, bbox.east)
             dWest == HaversineEW(lat, lon, bbox.west)
             r == Max(Max(dNorth, dSouth), Max(dEast, dWest)) * 105
         IN  Clamp(IF r <= 0 THEN DefaultRadius(v) * 100 ELSE r)

\* the inputs: centroids on two parallels or not finite, edges at several
\* distances from the centroid or not finite, or no bbox at all
RadiusLats == {30000, 60000, NaN}
RadiusLons == {-90000, NaN}
EdgeSteps == {0, 10, 30, 200, 400}
EdgesAbove(c) == {NaN} \cup (IF IsFinite(c) THEN {c + d : d \in EdgeSteps} ELSE {0})
EdgesBelow(c) == {NaN} \cup (IF IsFinite(c) THEN {c - d : d \in EdgeSteps} ELSE {0})

RadiusInputs ==
    { [bbox |-> NoBbox, lat |-> lat, lon |-> lon] : lat \in RadiusLats, lon \in RadiusLons }
    \cup UNION { UNION { { [bbox |-> Bbox(so, we, no, ea), lat |-> lat, lon |-> lon] :
                             so \in EdgesBelow(lat), no \in EdgesAbove(lat),
                             we \in EdgesBelow(lon), ea \in EdgesAbove(lon) } :
                         lat \in RadiusLats } : lon \in RadiusLons }

InitRadius ==
    /\ InitPage
    /\ HasCityPicker(variant)
    /\ selectedCity # NoCity
    /\ sel = SelIdle
    /\ \E in \in RadiusInputs : net = [phase |-> "call", in |-> in, radius |-> 0]

\* buildOverpassQuery / buildQuery calls computeSearchRadiusMeters
RadiusCompute ==
    /\ net.phase = "call"
    /\ net' = [net EXCEPT !.phase = "returned",
                          !.radius = computeSearchRadiusMeters(variant, net.in.bbox,
                                                               net.in.lat, net.in.lon)]
    /\ PageUnchanged

SpecRadius == InitRadius /\ [][RadiusCompute]_vars

\* C26: with a bbox of four finite edges and a finite centroid the radius
\* lies in [2500, 30000] metres; without bbox, with an edge or a centroid
\* that is not finite, or with all four edges on the centroid (a computed
\* radius of zero), it is the default of the variant.
RadiusClamped ==
    net.phase = "returned" =>
      LET b == net.in.bbox
          allFinite == /\ ~b.missing
                       /\ \A x \in {b.south, b.west, b.north, b.east, net.in.lat, net.in.lon} :
                            x # NaN
          onCentroid == /\ b.south = net.in.lat /\ b.north = net.in.lat
                        /\ b.west = net.in.lon /\ b.east = net.in.lon
      IN  /\ allFinite => (2500 * 100 <= net.radius /\ net.radius <= 30000 * 100)
          /\ (~allFinite \/ onCentroid)
               => net.radius = (IF IsFood(variant) THEN 9000 ELSE 12000) * 100

\* a small box, whose padded half-extent lies below the lower limit
RadiusRaisedToMinimum ==
    /\ net.phase = "returned"
    /\ ~net.in.bbox.missing
    /\ net.in.bbox.north = net.in.lat + 10
    /\ \A x \in {net.in.bbox.south, net.in.bbox.west, net.in.bbox.east} : x # NaN
    /\ net.radius = 2500 * 100

(***************************************************************************)
(* The rotation of one spin: the arithmetic of spinWheel on a wheel at     *)
(* rest, for lists below, at and above the number of slices the wheel can  *)
(* draw.  The draws run through the grid k / WheelDen and angles are       *)
(* counted in units of which 4 * visualCount * WheelDen make a full turn,  *)
(* so that every angle of the computation is an integer.                   *)
(***************************************************************************)
WheelDen == 20

WheelSizes == {1, 2, 3, MAX_VISUAL_SLICES, MAX_VISUAL_SLICES + 1, 2 * MAX_VISUAL_SLICES}

WheelTurn(v, n) == 4 * VisualCount(v, n) * WheelDen

\* rotations the wheel may rest at when the spin starts
WheelRests(v, n) ==
    {0, MinExtraSpins * WheelTurn(v, n) + 3 * WheelDen, 6 * WheelTurn(v, n) - 1}

\* the draws of Math.random() that decide the offset inside the slice
OffsetDraws == {0, 7, WheelDen - 1}

InitWheel ==
    /\ InitPage
    /\ sel = SelIdle
    /\ \E n \in WheelSizes : \E acc \in WheelRests(variant, n) :
         net = [phase |-> "rest", n |-> n, acc |-> acc, k1 |-> 0, k2 |-> 0, k3 |-> 0,
                finalRotation |-> acc]

\* spinWheel from `const n` to `accumulatedRotation = finalRotation`
WheelSpin ==
    /\ net.phase = "rest"
    /\ \E k1 \in 0 .. WheelDen - 1, k2 \in OffsetDraws, k3 \in 0 .. WheelDen - 1 :
         net' = [net EXCEPT
                   !.phase = "spun", !.k1 = k1, !.k2 = k2, !.k3 = k3,
                   !.finalRotation =
                      FinalRotation(variant, net.acc, net.n, k1, k2, k3, WheelDen,
                                    WheelTurn(variant, net.n))]
    /\ PageUnchanged

SpecWheel == InitWheel /\ [][WheelSpin]_vars

\* C28: in the variants that preselect the winner, the slice under the
\* pointer after the spin is the visual slice of the chosen candidate, the
\* offset added on top of the full turns lies in [0, 360), and on a list of
\* at most 200 venues the slice under the pointer is the chosen index.
PointerOnChosenSlice ==
    (net.phase = "spun" /\ Preselects(variant)) =>
      LET n == net.n
          turn == WheelTurn(variant, n)
          visualCount == Min(n, 200)
          chosenIndex == (net.k1 * n) \div WheelDen
          pointer == IndexFromRotation(net.finalRotation, visualCount, turn)
          offset == net.finalRotation - net.acc
                      - (4 + ((net.k3 * 4) \div WheelDen)) * turn
      IN  /\ pointer = (chosenIndex * visualCount) \div n
          /\ 0 <= offset /\ offset < turn
          /\ n <= 200 => pointer = chosenIndex

\* a spin on a list longer than the wheel, started from a rotation that is
\* not a multiple of a full turn, whose winner is not the first candidate
CompressedSpinDone ==
    /\ net.phase = "spun"
    /\ Preselects(variant)
    /\ net.n > MAX_VISUAL_SLICES
    /\ net.acc % WheelTurn(variant, net.n) # 0
    /\ net.k1 > 0
    /\ net.finalRotation > net.acc

\* C30: a spin adds at least 4 full turns and less than 8 full turns to the
\* rotation: 4 to 7 full turns and an offset in [0, 360).
SpinAddsFourToEightTurns ==
    net.phase = "spun" =>
      LET turn == WheelTurn(variant, net.n)
          added == net.finalRotation - net.acc
      IN  /\ 4 * turn <= added
          /\ added < 8 * turn
          /\ (added \div turn) \in 4 .. 7

\* a spin of 7 full turns and more
LongestSpin ==
    /\ net.phase = "spun"
    /\ net.finalRotation - net.acc > 7 * WheelTurn(variant, net.n)

(***************************************************************************)
(* Deduplication on its own: dedupeById (the loop of loadPlaces in the     *)
(* booze variants) applied to every list of up to DedupeMaxLen items, the  *)
(* items being two ids with two contents each.                             *)
(***************************************************************************)
DedupeMaxLen == 3

DedupeItems == [id : {<<"node", 1>>, <<"way", 1>>}, name : {"first", "other"}]

DedupeInputs == UNION { [1 .. n -> DedupeItems] : n \in 0 .. DedupeMaxLen }

InitDedupe ==
    /\ InitPage
    /\ sel = SelIdle
    /\ \E items \in DedupeInputs : net = [phase |-> "call", items |-> items, out |-> <<>>]

\* `return dedupeById(places)`
DedupeCall ==
    /\ net.phase = "call"
    /\ net' = [net EXCEPT !.phase = "returned", !.out = dedupeById(net.items)]
    /\ PageUnchanged

SpecDedupe == InitDedupe /\ [][DedupeCall]_vars

\* C33: the result holds, in the order of the input, exactly the items at
\* the positions where an id occurs for the first time, and deduplicating
\* the result again returns it unchanged.
DedupeKeepsFirst ==
    net.phase = "returned" =>
      LET items == net.items
          firsts == {k \in 1 .. Len(items) :
                       \A j \in 1 .. k - 1 : items[j].id # items[k].id}
          nth(k) == CHOOSE q \in firsts : Cardinality({r \in firsts : r <= q}) = k
      IN  /\ Len(net.out) = Cardinality(firsts)
          /\ \A k \in 1 .. Len(net.out) : net.out[k] = items[nth(k)]
          /\ dedupeById(net.out) = net.out

\* an id came back a second time with another content, after an item of
\* another id, and the first content was kept
LaterDuplicateDropped ==
    /\ net.phase = "returned"
    /\ Len(net.items) = 3
    /\ net.items[1].id = net.items[3].id
    /\ net.items[1] # net.items[3]
    /\ net.out = <<net.items[1], net.items[2]>>

(***************************************************************************)
(* The city search box: keystrokes, the debounce timer, the menu button    *)
(* and the searches in flight.  A search is one step here (SpecGeo has its *)
(* requests); what it renders is tagged with its query and with the order  *)
(* in which the searches were started.                                     *)
(***************************************************************************)
MaxSearches == 3

MinQueryLen == 2

\* the texts the box may hold
InputValues == {<<>>, <<"l">>, <<"l", " ">>, <<"l", "a">>, <<"l", "a", "f">>}

\* String.prototype.trim on these texts
RECURSIVE trim(_)
trim(s) ==
    IF s = <<>> THEN s
    ELSE IF Head(s) = " " THEN trim(Tail(s))
    ELSE IF s[Len(s)] = " " THEN trim(SubSeq(s, 1, Len(s) - 1))
    ELSE s

\* the page after the script has run: the box is empty, no timer is set
InitType ==
    /\ InitPage
    /\ HasCityPicker(variant)
    /\ sel = SelIdle
    /\ \E expanded \in BOOLEAN :
         net = [phase |-> "typing", value |-> <<>>, expanded |-> expanded,
                debounce |-> <<>>, searches |-> {}, started |-> 0, shown |-> <<>>]

\* the input handler of citySearch: the pending timer is cleared, a text
\* shorter than two characters empties the list, any other sets the timer
CitySearchInput ==
    /\ net.phase = "typing"
    /\ \E value \in InputValues \ {net.value} :
         LET q == trim(value)
         IN  net' = IF Len(q) < MinQueryLen
                    THEN [net EXCEPT !.value = value, !.debounce = <<>>, !.shown = <<>>]
                    ELSE [net EXCEPT !.value = value, !.debounce = <<q>>]
    /\ PageUnchanged

\* the debounce timer fires: searchCities(q) is called and awaited
DebounceFires ==
    /\ net.phase = "typing"
    /\ net.debounce # <<>>
    /\ net.started < MaxSearches
    /\ net' = [net EXCEPT !.debounce = <<>>,
                          !.started = @ + 1,
                          !.searches = @ \cup {[q |-> Head(net.debounce),
                                                seq |-> net.started + 1]}]
    /\ PageUnchanged

\* the click handler of cityToggle: the menu opens or closes; on opening the
\* list is emptied and a text of two characters or more is searched at once
CityToggleClick ==
    /\ net.phase = "typing"
    /\ LET q == trim(net.value)
           searches == ~net.expanded /\ Len(q) >= MinQueryLen
       IN  /\ searches => net.started < MaxSearches
           /\ net' = IF net.expanded
                     THEN [net EXCEPT !.expanded = FALSE]
                     ELSE IF searches
                          THEN [net EXCEPT !.expanded = TRUE, !.shown = <<>>,
                                           !.started = @ + 1,
                                           !.searches = @ \cup {[q |-> q,
                                                                 seq |-> net.started + 1]}]
                          ELSE [net EXCEPT !.expanded = TRUE, !.shown = <<>>]
    /\ PageUnchanged

\* a click outside the menu and its button closes the menu
DocumentClick ==
    /\ net.phase = "typing"
    /\ net.expanded
    /\ net' = [net EXCEPT !.expanded = FALSE]
    /\ PageUnchanged

\* a search in flight returns and its callback calls renderCityResults
SearchResolves ==
    /\ net.phase = "typing"
    /\ \E search \in net.searches :
         net' = [net EXCEPT !.searches = @ \ {search}, !.shown = <<search>>]
    /\ PageUnchanged

TypeNext ==
    \/ CitySearchInput
    \/ DebounceFires
    \/ CityToggleClick
    \/ DocumentClick
    \/ SearchResolves

SpecType == InitType /\ [][TypeNext]_vars

\* C40: the candidate list shown corresponds to the most recent query: the
\* results of a query never replace the results of another query whose
\* search was started later.
LateResultsNeverReplaceNewer ==
    [][(/\ net.shown # <<>>
        /\ net'.shown # <<>>
        /\ net'.shown[1].q # net.shown[1].q)
         => net'.shown[1].seq > net.shown[1].seq]_vars

====
